---- MODULE Spec2Model ----
(***************************************************************************)
(* Model of the MSBT codec of msbt-rs (src/src/lib.rs): the reader          *)
(* (Header::from_reader, MsbtReader::read_sections and the six section      *)
(* parsers, skip_padding) and the writer (Msbt::write_to, write_header and  *)
(* the six section writers, write_padding), at byte level.                  *)
(*                                                                         *)
(* A byte is a number in 0..255, a byte string a sequence of bytes, a       *)
(* stream position a 0-based offset.  Option<T> is a sequence of length 0   *)
(* (None) or 1 (Some).  A String is the sequence of its UTF-8 bytes.        *)
(* Every u16, u32 and usize of the inputs modelled stays below 2^31, where  *)
(* the casts `as u32` and `as usize` change nothing.                       *)
(***************************************************************************)
EXTENDS Integers, Sequences, FiniteSets, TLC

VARIABLES
  file,     \* the description the input bytes were produced from (environment)
  input,    \* the bytes behind the reader (R: Read + Seek)
  pos,      \* the reader's stream position
  msbt,     \* MsbtReader.msbt, later the Msbt handed to write_to
  pc,       \* where the program is
  result,   \* what from_reader returned, once it has returned
  out,      \* the bytes write_to has written (Counter<W>; written() = Len(out))
  wi        \* write_to's position in section_order (1-based)

vars == <<file, input, pos, msbt, pc, result, out, wi>>

(***************************************************************************)
(* Program constants.                                                      *)
(***************************************************************************)
PADDING_LENGTH == 16
LABEL_HASH_MAGIC == 1170

HEADER_MAGIC == <<77, 115, 103, 83, 116, 100, 66, 110>>   \* "MsgStdBn"
TAG_LBL1 == <<76, 66, 76, 49>>
TAG_NLI1 == <<78, 76, 73, 49>>
TAG_ATO1 == <<65, 84, 79, 49>>
TAG_ATR1 == <<65, 84, 82, 49>>
TAG_TSY1 == <<84, 83, 89, 49>>
TAG_TXT2 == <<84, 88, 84, 50>>

None == <<>>
Some(x) == <<x>>
IsSome(o) == Len(o) = 1
Unwrap(o) == o[1]

(***************************************************************************)
(* Byte-order codec (byteordered::Endianness read_u16/u32, write_u16/u32). *)
(***************************************************************************)
write_u16(e, v) ==
  LET hi == (v \div 256) % 256
      lo == v % 256
  IN  IF e = "Big" THEN <<hi, lo>> ELSE <<lo, hi>>

write_u32(e, v) ==
  LET b3 == (v \div 16777216) % 256
      b2 == (v \div 65536) % 256
      b1 == (v \div 256) % 256
      b0 == v % 256
  IN  IF e = "Big" THEN <<b3, b2, b1, b0>> ELSE <<b0, b1, b2, b3>>

read_u16(e, b) ==
  IF e = "Big" THEN b[1] * 256 + b[2] ELSE b[2] * 256 + b[1]

read_u32(e, b) ==
  IF e = "Big"
    THEN b[1] * 16777216 + b[2] * 65536 + b[3] * 256 + b[4]
    ELSE b[4] * 16777216 + b[3] * 65536 + b[2] * 256 + b[1]

(***************************************************************************)
(* The reader's cursor over a byte string: read_exact(n) at position p      *)
(* succeeds iff n bytes remain.                                            *)
(***************************************************************************)
Avail(bytes, p, n) == p + n <= Len(bytes)
Take(bytes, p, n) == SubSeq(bytes, p + 1, p + n)

Rep(b, n) == [i \in 1..n |-> b]

(***************************************************************************)
(* Results of the parsing functions: Ok(value, position after) or an        *)
(* error kind of error::Error with the bytes it carries.  "Panic" is a Rust *)
(* panic (the call never returns); "Overflow" is a u32 subtraction below    *)
(* zero, whose outcome depends on the build (see ReadTxt2).                 *)
(***************************************************************************)
Ok(v, p) == [ok |-> TRUE, err |-> "", bytes |-> <<>>, val |-> v, pos |-> p]
Err(kind, b) == [ok |-> FALSE, err |-> kind, bytes |-> b, val |-> <<>>, pos |-> 0]

(***************************************************************************)
(* Header::from_reader.                                                    *)
(***************************************************************************)
Header_from_reader(bytes) ==
  IF ~Avail(bytes, 0, 8) THEN Err("Io", <<>>)
  ELSE IF Take(bytes, 0, 8) # HEADER_MAGIC THEN Err("InvalidMagic", <<>>)
  ELSE IF ~Avail(bytes, 8, 2) THEN Err("Io", <<>>)
  ELSE IF Take(bytes, 8, 2) \notin {<<254, 255>>, <<255, 254>>}
    THEN Err("InvalidBom", <<>>)
  ELSE LET endianness == IF Take(bytes, 8, 2) = <<254, 255>> THEN "Big" ELSE "Little"
       IN
  IF ~Avail(bytes, 10, 3) THEN Err("Io", <<>>)
  ELSE IF bytes[13] \notin {0, 1} THEN Err("InvalidEncoding", <<bytes[13]>>)
  ELSE IF ~Avail(bytes, 13, 19) THEN Err("Io", <<>>)
  ELSE Ok([magic         |-> Take(bytes, 0, 8),
           endianness    |-> endianness,
           unknown_1     |-> read_u16(endianness, Take(bytes, 10, 2)),
           encoding      |-> bytes[13],
           unknown_2     |-> bytes[14],
           section_count |-> read_u16(endianness, Take(bytes, 14, 2)),
           unknown_3     |-> read_u16(endianness, Take(bytes, 16, 2)),
           padding       |-> Take(bytes, 22, 10)], 32)

\* Header::calc_file_size: 8 + 2 + 2 + 1 + 1 + 2 + 2 + 4 + 10
Header_calc_file_size == 8 + 2 + 2 + 1 + 1 + 2 + 2 + 4 + 10

\* MsbtReader::new: the container before any section is read
NewMsbt(header) ==
  [header |-> header, section_order |-> <<>>,
   lbl1 |-> None, nli1 |-> None, ato1 |-> None, atr1 |-> None,
   tsy1 |-> None, txt2 |-> None, pad_byte |-> 0]

(***************************************************************************)
(* MsbtReader::read_section: the 16-byte envelope.                         *)
(***************************************************************************)
read_section(bytes, e, p) ==
  IF ~Avail(bytes, p, 16) THEN Err("Io", <<>>)
  ELSE Ok([magic   |-> Take(bytes, p, 4),
           size    |-> read_u32(e, Take(bytes, p + 4, 4)),
           padding |-> Take(bytes, p + 8, 8)], p + 16)

\* read_atr1 / read_ato1 / read_tsy1: the envelope, then size raw bytes
read_opaque(bytes, e, p) ==
  LET s == read_section(bytes, e, p) IN
  IF ~s.ok THEN s
  ELSE IF ~Avail(bytes, s.pos, s.val.size) THEN Err("Io", <<>>)
  ELSE Ok([section |-> s.val, unknown |-> Take(bytes, s.pos, s.val.size)],
          s.pos + s.val.size)

read_atr1(bytes, e, p) == read_opaque(bytes, e, p)
read_ato1(bytes, e, p) == read_opaque(bytes, e, p)
read_tsy1(bytes, e, p) == read_opaque(bytes, e, p)

(***************************************************************************)
(* read_nli1: global_ids is the BTreeMap, a function from key to value.     *)
(***************************************************************************)
MapInsert(map, key, val) ==
  [k \in DOMAIN map \cup {key} |-> IF k = key THEN val ELSE map[k]]

RECURSIVE ReadIds(_, _, _, _, _)
ReadIds(bytes, e, p, n, map) ==
  IF n = 0 THEN Ok(map, p)
  ELSE IF ~Avail(bytes, p, 8) THEN Err("Io", <<>>)
  ELSE LET val == read_u32(e, Take(bytes, p, 4))
           key == read_u32(e, Take(bytes, p + 4, 4))
       IN  ReadIds(bytes, e, p + 8, n - 1, MapInsert(map, key, val))

read_nli1(bytes, e, p) ==
  LET s == read_section(bytes, e, p) IN
  IF ~s.ok THEN s
  ELSE IF s.val.size = 0
    THEN Ok([section |-> s.val, id_count |-> 0, global_ids |-> <<>>], s.pos)
  ELSE IF ~Avail(bytes, s.pos, 4) THEN Err("Io", <<>>)
  ELSE LET id_count == read_u32(e, Take(bytes, s.pos, 4))
           ids == ReadIds(bytes, e, s.pos + 4, id_count, <<>>)
       IN  IF ~ids.ok THEN ids
           ELSE Ok([section |-> s.val, id_count |-> id_count,
                    global_ids |-> ids.val], ids.pos)

(***************************************************************************)
(* String::from_utf8 as read_lbl1 uses it: TRUE iff the bytes are           *)
(* well-formed UTF-8 (no overlong forms, no surrogates, at most U+10FFFF).  *)
(***************************************************************************)
Cont(b) == b \in 128..191

RECURSIVE ValidUtf8(_, _)
ValidUtf8(b, i) ==
  IF i > Len(b) THEN TRUE
  ELSE LET c == b[i]
           n == Len(b) - i      \* bytes after position i
       IN
    IF c <= 127 THEN ValidUtf8(b, i + 1)
    ELSE IF c \in 194..223 THEN n >= 1 /\ Cont(b[i + 1]) /\ ValidUtf8(b, i + 2)
    ELSE IF c \in 224..239
      THEN /\ n >= 2
           /\ b[i + 1] \in (IF c = 224 THEN 160..191
                            ELSE IF c = 237 THEN 128..159 ELSE 128..191)
           /\ Cont(b[i + 2])
           /\ ValidUtf8(b, i + 3)
    ELSE IF c \in 240..244
      THEN /\ n >= 3
           /\ b[i + 1] \in (IF c = 240 THEN 144..191
                            ELSE IF c = 244 THEN 128..143 ELSE 128..191)
           /\ Cont(b[i + 2])
           /\ Cont(b[i + 3])
           /\ ValidUtf8(b, i + 4)
    ELSE FALSE

(***************************************************************************)
(* read_group and read_lbl1.  A Group is {label_count, offset}, a Label     *)
(* {name}.  labels starts as label_count empty names; every label record    *)
(* of the payload stores its name at labels[index] (a panic when index is   *)
(* out of range).  The value returned here carries, beside the Lbl1, the    *)
(* indices the records assigned, in payload order.                         *)
(***************************************************************************)
RECURSIVE ReadGroups(_, _, _, _, _)
ReadGroups(bytes, e, p, n, groups) ==
  IF n = 0 THEN Ok(groups, p)
  ELSE IF ~Avail(bytes, p, 8) THEN Err("Io", <<>>)
  ELSE ReadGroups(bytes, e, p + 8, n - 1,
         Append(groups, [label_count |-> read_u32(e, Take(bytes, p, 4)),
                         offset      |-> read_u32(e, Take(bytes, p + 4, 4))]))

RECURSIVE SumLabelCounts(_)
SumLabelCounts(groups) ==
  IF groups = <<>> THEN 0
  ELSE Head(groups).label_count + SumLabelCounts(Tail(groups))

RECURSIVE ReadLabels(_, _, _, _, _, _)
ReadLabels(bytes, e, p, n, labels, assigned) ==
  IF n = 0 THEN Ok([labels |-> labels, assigned |-> assigned], p)
  ELSE IF ~Avail(bytes, p, 1) THEN Err("Io", <<>>)
  ELSE LET str_len == bytes[p + 1] IN
    IF ~Avail(bytes, p + 1, str_len) THEN Err("Io", <<>>)
    ELSE LET name == Take(bytes, p + 1, str_len) IN
      IF ~ValidUtf8(name, 1) THEN Err("InvalidUtf8", name)
      ELSE IF ~Avail(bytes, p + 1 + str_len, 4) THEN Err("Io", <<>>)
      ELSE LET index == read_u32(e, Take(bytes, p + 1 + str_len, 4)) IN
        IF index >= Len(labels) THEN Err("Panic", <<>>)
        ELSE ReadLabels(bytes, e, p + 1 + str_len + 4, n - 1,
               [labels EXCEPT ![index + 1] = [name |-> name]],
               Append(assigned, index))

read_lbl1(bytes, e, p) ==
  LET s == read_section(bytes, e, p) IN
  IF ~s.ok THEN s
  ELSE IF s.val.magic # TAG_LBL1 THEN Err("InvalidMagic", <<>>)
  ELSE IF ~Avail(bytes, s.pos, 4) THEN Err("Io", <<>>)
  ELSE LET group_count == read_u32(e, Take(bytes, s.pos, 4))
           g == ReadGroups(bytes, e, s.pos + 4, group_count, <<>>)
       IN
    IF ~g.ok THEN g
    ELSE LET label_count == SumLabelCounts(g.val)
             l == ReadLabels(bytes, e, g.pos, label_count,
                             [i \in 1..label_count |-> [name |-> <<>>]], <<>>)
         IN
      IF ~l.ok THEN l
      ELSE Ok([section  |-> s.val, groups |-> g.val,
               labels   |-> l.val.labels, assigned |-> l.val.assigned], l.pos)

\* the Lbl1 of a read_lbl1 result (the struct has no `assigned`)
Lbl1Of(v) == [section |-> v.section, groups |-> v.groups, labels |-> v.labels]

(***************************************************************************)
(* Text elements of a string-table entry (section/txt2.rs is not part of    *)
(* the sources at hand: modelled from the specification, one byte per code  *)
(* unit).  An element is a literal run, an opening directive (marker 14,    *)
(* group, tag, parameter length, parameters) or a closing directive         *)
(* (marker 15, group, tag).  to_bytes gives an element's exact bytes back.  *)
(***************************************************************************)
Text(data) == [kind |-> "Text", group |-> 0, tag |-> 0, data |-> data]
Flush(acc, run) == IF run = <<>> THEN acc ELSE Append(acc, Text(run))

RECURSIVE Lex(_, _, _, _)
Lex(b, i, run, acc) ==
  IF i > Len(b) THEN Flush(acc, run)
  ELSE IF b[i] = 14 /\ i + 3 <= Len(b) /\ i + 3 + b[i + 3] <= Len(b)
    THEN Lex(b, i + 4 + b[i + 3], <<>>,
             Append(Flush(acc, run),
                    [kind |-> "Open", group |-> b[i + 1], tag |-> b[i + 2],
                     data |-> SubSeq(b, i + 4, i + 3 + b[i + 3])]))
  ELSE IF b[i] = 15 /\ i + 2 <= Len(b)
    THEN Lex(b, i + 3, <<>>,
             Append(Flush(acc, run),
                    [kind |-> "Close", group |-> b[i + 1], tag |-> b[i + 2],
                     data |-> <<>>]))
  ELSE Lex(b, i + 1, Append(run, b[i]), acc)

parse_bytes(b) == Lex(b, 1, <<>>, <<>>)

to_bytes(vv) ==
  IF vv.kind = "Text" THEN vv.data
  ELSE IF vv.kind = "Open"
    THEN <<14, vv.group, vv.tag, Len(vv.data)>> \o vv.data
  ELSE <<15, vv.group, vv.tag>>

RECURSIVE value_bytes(_)
value_bytes(s) ==
  IF s = <<>> THEN <<>> ELSE to_bytes(Head(s)) \o value_bytes(Tail(s))

(***************************************************************************)
(* read_txt2.  str_len = next_str_end - offsets[i] is a u32 subtraction:    *)
(* below zero it is an "Overflow" (a panic in a build with overflow         *)
(* checks; otherwise it wraps to a length no input of the model holds, and  *)
(* read_exact fails).                                                      *)
(***************************************************************************)
RECURSIVE ReadOffsets(_, _, _, _, _)
ReadOffsets(bytes, e, p, n, offsets) ==
  IF n = 0 THEN Ok(offsets, p)
  ELSE IF ~Avail(bytes, p, 4) THEN Err("Io", <<>>)
  ELSE ReadOffsets(bytes, e, p + 4, n - 1,
                   Append(offsets, read_u32(e, Take(bytes, p, 4))))

RECURSIVE ReadStrings(_, _, _, _, _, _)
ReadStrings(bytes, p, offsets, size, i, values) ==
  IF i > Len(offsets) THEN Ok(values, p)
  ELSE LET next_str_end == IF i = Len(offsets) THEN size ELSE offsets[i + 1]
           str_len == next_str_end - offsets[i]
       IN
    IF str_len < 0 THEN Err("Overflow", <<>>)
    ELSE IF ~Avail(bytes, p, str_len) THEN Err("Io", <<>>)
    ELSE ReadStrings(bytes, p + str_len, offsets, size, i + 1,
                     Append(values, parse_bytes(Take(bytes, p, str_len))))

read_txt2(bytes, e, p) ==
  LET s == read_section(bytes, e, p) IN
  IF ~s.ok THEN s
  ELSE IF ~Avail(bytes, s.pos, 4) THEN Err("Io", <<>>)
  ELSE LET string_count == read_u32(e, Take(bytes, s.pos, 4))
           o == ReadOffsets(bytes, e, s.pos + 4, string_count, <<>>)
       IN
    IF ~o.ok THEN o
    ELSE LET v == ReadStrings(bytes, o.pos, o.val, s.val.size, 1, <<>>) IN
      IF ~v.ok THEN v
      ELSE Ok([section |-> s.val, values |-> v.val], v.pos)

(***************************************************************************)
(* Sizes (CalculatesSize).  Tsy1::calc_size is section/tsy1.rs; the other   *)
(* sections' calc_size and Section::calc_size are not part of the sources   *)
(* at hand and are modelled from the specification: envelope (tag 4, size   *)
(* 4, reserved 8) plus the encoded payload.                                *)
(***************************************************************************)
Section_calc_size == 4 + 4 + 8

Tsy1_calc_size(t) == Section_calc_size + Len(t.unknown)
Ato1_calc_size(t) == Section_calc_size + Len(t.unknown)
Atr1_calc_size(t) == Section_calc_size + Len(t.unknown)

RECURSIVE LabelsSize(_)
LabelsSize(labels) ==
  IF labels = <<>> THEN 0
  ELSE 1 + Len(Head(labels).name) + 4 + LabelsSize(Tail(labels))

Lbl1_calc_size(l) ==
  Section_calc_size + 4 + 8 * Len(l.groups) + LabelsSize(l.labels)

Nli1_calc_size(n) ==
  Section_calc_size
    + (IF n.section.size > 0 THEN 4 + 8 * Cardinality(DOMAIN n.global_ids) ELSE 0)

RECURSIVE ValuesSize(_)
ValuesSize(values) ==
  IF values = <<>> THEN 0
  ELSE Len(value_bytes(Head(values))) + ValuesSize(Tail(values))

Txt2_calc_size(t) ==
  Section_calc_size + 4 + 4 * Len(t.values) + ValuesSize(t.values)

\* Msbt::plus_padding
plus_padding(size) ==
  LET rem == size % PADDING_LENGTH IN
  IF rem > 0 THEN size + (PADDING_LENGTH - rem) ELSE size

\* impl CalculatesSize for Msbt
calc_size(m) ==
  Header_calc_file_size
    + plus_padding(IF IsSome(m.lbl1) THEN Lbl1_calc_size(Unwrap(m.lbl1)) ELSE 0)
    + plus_padding(IF IsSome(m.nli1) THEN Nli1_calc_size(Unwrap(m.nli1)) ELSE 0)
    + plus_padding(IF IsSome(m.ato1) THEN Ato1_calc_size(Unwrap(m.ato1)) ELSE 0)
    + plus_padding(IF IsSome(m.atr1) THEN Atr1_calc_size(Unwrap(m.atr1)) ELSE 0)
    + plus_padding(IF IsSome(m.tsy1) THEN Tsy1_calc_size(Unwrap(m.tsy1)) ELSE 0)
    + plus_padding(IF IsSome(m.txt2) THEN Txt2_calc_size(Unwrap(m.txt2)) ELSE 0)

(***************************************************************************)
(* MsbtWriter.  Every write_* below gives the bytes the function writes.    *)
(***************************************************************************)
write_header(m) ==
  LET h == m.header IN
  h.magic
    \o (IF h.endianness = "Big" THEN <<254, 255>> ELSE <<255, 254>>)
    \o write_u16(h.endianness, h.unknown_1)
    \o <<h.encoding, h.unknown_2>>
    \o write_u16(h.endianness, h.section_count)
    \o write_u16(h.endianness, h.unknown_3)
    \o write_u32(h.endianness, calc_size(m))
    \o h.padding

write_section(e, section) ==
  section.magic \o write_u32(e, section.size) \o section.padding

write_group(e, group) ==
  write_u32(e, group.label_count) \o write_u32(e, group.offset)

\* write_padding without its early return
write_padding_full(written, pad_byte) ==
  Rep(pad_byte, PADDING_LENGTH - (written % PADDING_LENGTH))

\* write_padding, given Counter::written()
write_padding(written, pad_byte) ==
  LET remainder == written % PADDING_LENGTH IN
  IF remainder = 0 THEN <<>> ELSE Rep(pad_byte, PADDING_LENGTH - remainder)

(***************************************************************************)
(* Label::checksum(lbl1) (section/lbl1.rs is not part of the sources at     *)
(* hand: modelled from the specification and LABEL_HASH_MAGIC): the hash of *)
(* the name's bytes, reduced to a bucket number.                           *)
(***************************************************************************)
\* hash = hash * 0x492 + byte in u32 (wrapping), the hash kept as its two
\* 16-bit halves so that no intermediate value leaves TLC's integers
RECURSIVE NameHash(_, _, _)
NameHash(name, hi, lo) ==
  IF name = <<>> THEN [hi |-> hi, lo |-> lo]
  ELSE LET l == lo * LABEL_HASH_MAGIC + Head(name)
           h == hi * LABEL_HASH_MAGIC + l \div 65536
       IN  NameHash(Tail(name), h % 65536, l % 65536)

\* hash % groups.len()
checksum(label, lbl1) ==
  LET h == NameHash(label.name, 0, 0)
      n == Len(lbl1.groups)
  IN  ((h.hi % n) * (65536 % n) + (h.lo % n)) % n

\* labels.iter().enumerate(): pairs (0-based index, label)
Enumerate(labels) == [i \in 1..Len(labels) |-> [i |-> i - 1, label |-> labels[i]]]

\* sort_by_key (stable): x goes after every element whose key is <= its own
RECURSIVE InsertByKey(_, _, _)
InsertByKey(sorted, x, lbl1) ==
  IF sorted = <<>> THEN <<x>>
  ELSE IF checksum(Head(sorted).label, lbl1) <= checksum(x.label, lbl1)
    THEN <<Head(sorted)>> \o InsertByKey(Tail(sorted), x, lbl1)
  ELSE <<x>> \o sorted

RECURSIVE SortByKey(_, _, _)
SortByKey(pairs, sorted, lbl1) ==
  IF pairs = <<>> THEN sorted
  ELSE SortByKey(Tail(pairs), InsertByKey(sorted, Head(pairs), lbl1), lbl1)

\* the labels left in index order
unsorted_labels(lbl1) == Enumerate(lbl1.labels)

sorted_labels(lbl1) == SortByKey(Enumerate(lbl1.labels), <<>>, lbl1)

\* one label record: name.len() as u8, the name, the index
write_label(e, pair) ==
  <<Len(pair.label.name) % 256>> \o pair.label.name \o write_u32(e, pair.i)

RECURSIVE write_groups(_, _)
write_groups(e, groups) ==
  IF groups = <<>> THEN <<>>
  ELSE write_group(e, Head(groups)) \o write_groups(e, Tail(groups))

RECURSIVE write_labels(_, _)
write_labels(e, pairs) ==
  IF pairs = <<>> THEN <<>>
  ELSE write_label(e, Head(pairs)) \o write_labels(e, Tail(pairs))

\* write_lbl1 without the envelope and the padding
lbl1_payload(e, lbl1) ==
  write_u32(e, Len(lbl1.groups))
    \o write_groups(e, lbl1.groups)
    \o write_labels(e, sorted_labels(lbl1))

\* the BTreeMap's (key, value) pairs in ascending key order
RECURSIVE Ascending(_)
Ascending(keys) ==
  IF keys = {} THEN <<>>
  ELSE LET k == CHOOSE x \in keys : \A y \in keys : x <= y
       IN  <<k>> \o Ascending(keys \ {k})

\* the loop over &nli1.global_ids: value, then key
RECURSIVE write_ids(_, _, _)
write_ids(e, keys, global_ids) ==
  IF keys = <<>> THEN <<>>
  ELSE write_u32(e, global_ids[Head(keys)]) \o write_u32(e, Head(keys))
         \o write_ids(e, Tail(keys), global_ids)

nli1_payload(e, nli1) ==
  IF nli1.section.size > 0
    THEN write_u32(e, nli1.id_count)
           \o write_ids(e, Ascending(DOMAIN nli1.global_ids), nli1.global_ids)
    ELSE <<>>

\* write_txt2's offsets: value_count * 4 + 4 + total, total += s.len()
RECURSIVE Txt2Offsets(_, _, _)
Txt2Offsets(values, value_count, total) ==
  IF values = <<>> THEN <<>>
  ELSE <<value_count * 4 + 4 + total>>
         \o Txt2Offsets(Tail(values), value_count, total + Len(Head(values)))

RECURSIVE write_offsets(_, _)
write_offsets(e, offsets) ==
  IF offsets = <<>> THEN <<>>
  ELSE write_u32(e, Head(offsets)) \o write_offsets(e, Tail(offsets))

RECURSIVE write_values(_)
write_values(values) ==
  IF values = <<>> THEN <<>>
  ELSE value_bytes(Head(values)) \o write_values(Tail(values))

\* write_txt2 without the envelope and the padding
txt2_payload(e, txt2) ==
  LET value_count == Len(txt2.values) IN
  write_u32(e, value_count)
    \o write_offsets(e, Txt2Offsets(txt2.values, value_count, 0))
    \o write_values(txt2.values)

opaque_payload(e, t) == t.unknown

\* what write_<tag> writes before the padding: envelope and payload, or
\* nothing when the container holds no such section
SectionImage(m, tag) ==
  LET e == m.header.endianness
      Envelope(opt) == write_section(e, Unwrap(opt).section)
  IN  CASE tag = "Lbl1" /\ IsSome(m.lbl1) ->
             Envelope(m.lbl1) \o lbl1_payload(e, Unwrap(m.lbl1))
        [] tag = "Nli1" /\ IsSome(m.nli1) ->
             Envelope(m.nli1) \o nli1_payload(e, Unwrap(m.nli1))
        [] tag = "Ato1" /\ IsSome(m.ato1) ->
             Envelope(m.ato1) \o opaque_payload(e, Unwrap(m.ato1))
        [] tag = "Atr1" /\ IsSome(m.atr1) ->
             Envelope(m.atr1) \o opaque_payload(e, Unwrap(m.atr1))
        [] tag = "Tsy1" /\ IsSome(m.tsy1) ->
             Envelope(m.tsy1) \o opaque_payload(e, Unwrap(m.tsy1))
        [] tag = "Txt2" /\ IsSome(m.txt2) ->
             Envelope(m.txt2) \o txt2_payload(e, Unwrap(m.txt2))
        [] OTHER -> <<>>

Present(m, tag) ==
  CASE tag = "Lbl1" -> IsSome(m.lbl1)
    [] tag = "Nli1" -> IsSome(m.nli1)
    [] tag = "Ato1" -> IsSome(m.ato1)
    [] tag = "Atr1" -> IsSome(m.atr1)
    [] tag = "Tsy1" -> IsSome(m.tsy1)
    [] tag = "Txt2" -> IsSome(m.txt2)

\* write_lbl1 .. write_txt2, given Counter::written(): image, then padding
\* (no padding call when the section is absent)
WriteSectionBytes(m, tag, written) ==
  LET img == SectionImage(m, tag) IN
  IF Present(m, tag)
    THEN img \o write_padding(written + Len(img), m.pad_byte)
    ELSE <<>>

\* skip_padding that keeps a pad byte once one was captured
skip_padding_first(bytes, p, pad_byte) ==
  LET remainder == p % PADDING_LENGTH IN
  IF remainder > 0
    THEN IF ~Avail(bytes, p, 1) THEN Err("Io", <<>>)
         ELSE Ok(IF pad_byte = 0 THEN bytes[p + 1] ELSE pad_byte,
                 p + PADDING_LENGTH - remainder)
    ELSE Ok(pad_byte, p)

\* skip_padding at position p: the new position and pad byte
skip_padding(bytes, p, pad_byte) ==
  LET remainder == p % PADDING_LENGTH IN
  IF remainder > 0
    THEN IF ~Avail(bytes, p, 1) THEN Err("Io", <<>>)
         ELSE Ok(bytes[p + 1], p + PADDING_LENGTH - remainder)
    ELSE Ok(pad_byte, p)

(***************************************************************************)
(* The inputs.  A file is described by its header fields, its sections      *)
(* (positions in Pool), the byte that fills the gap after each section and  *)
(* the number of bytes cut off its end.  A section description is the tag,  *)
(* the size field and the payload as 32-bit words (w >= 0, in the file's    *)
(* byte order) and raw bytes (w = -1).                                     *)
(***************************************************************************)
MaxSections == 2

W(v) == [w |-> v, b |-> <<>>]
B(bytes) == [w |-> -1, b |-> bytes]
Sec(tag, size, items, wf) == [tag |-> tag, size |-> size, items |-> items, wf |-> wf]

Pool == <<
  \* 1: opaque section TSY1, one byte
  Sec(TAG_TSY1, 1, <<B(<<9>>)>>, TRUE),
  \* 2: string table, entries "AB" and "C"
  Sec(TAG_TXT2, 15, <<W(2), W(12), W(14), B(<<65, 66, 67>>)>>, TRUE),
  \* 3: global-ID table, ids 5 and 9
  Sec(TAG_NLI1, 20, <<W(2), W(0), W(5), W(1), W(9)>>, TRUE),
  \* 4: label table, one bucket, "A" -> 1, "B" -> 0
  Sec(TAG_LBL1, 24, <<W(1), W(2), W(0), B(<<1, 65>>), W(1), B(<<1, 66>>), W(0)>>, TRUE),
  \* 5: label table, two buckets, in checksum order:
  \*    "D" -> 1 and "B" -> 2 (bucket 0), "AC" -> 0 (bucket 1)
  Sec(TAG_LBL1, 39, <<W(2), W(2), W(20), W(1), W(32),
                      B(<<1, 68>>), W(1), B(<<1, 66>>), W(2), B(<<2, 65, 67>>), W(0)>>, TRUE),
  \* 6: label table with no bucket and a size field of 100
  Sec(TAG_LBL1, 100, <<W(0)>>, FALSE),
  \* 7: label table whose two records both carry index 0
  Sec(TAG_LBL1, 24, <<W(1), W(2), W(0), B(<<1, 65>>), W(0), B(<<1, 66>>), W(0)>>, FALSE),
  \* 8: label table whose record carries index 5 of 1
  Sec(TAG_LBL1, 18, <<W(1), W(1), W(0), B(<<1, 65>>), W(5)>>, FALSE),
  \* 9: label table whose name is not UTF-8
  Sec(TAG_LBL1, 18, <<W(1), W(1), W(0), B(<<1, 255>>), W(0)>>, FALSE),
  \* 10: global-ID table of size 0
  Sec(TAG_NLI1, 0, <<>>, TRUE),
  \* 11: global-ID table, ids 9 and 5
  Sec(TAG_NLI1, 20, <<W(2), W(0), W(9), W(1), W(5)>>, TRUE),
  \* 12: global-ID table, id 7 twice
  Sec(TAG_NLI1, 20, <<W(2), W(0), W(7), W(1), W(7)>>, FALSE),
  \* 13, 14: opaque sections ATO1 (three bytes) and ATR1 (empty)
  Sec(TAG_ATO1, 3, <<B(<<1, 2, 3>>)>>, TRUE),
  Sec(TAG_ATR1, 0, <<>>, TRUE),
  \* 15: string table with no entry
  Sec(TAG_TXT2, 4, <<W(0)>>, TRUE),
  \* 16: string table with two empty entries
  Sec(TAG_TXT2, 12, <<W(2), W(12), W(12)>>, TRUE),
  \* 17: string table, one entry: "A", an opening and a closing directive
  Sec(TAG_TXT2, 17, <<W(1), W(8), B(<<65, 14, 1, 2, 1, 153, 15, 1, 2>>)>>, TRUE),
  \* 18: string table whose second offset lies before the first
  Sec(TAG_TXT2, 12, <<W(2), W(12), W(8)>>, FALSE),
  \* 19: a section of an unknown kind
  Sec(<<88, 89, 90, 49>>, 0, <<>>, FALSE)
>>

\* the sections the header and padding variations are combined with
SmallPool == {1, 2, 3, 4}
PadBytes == {0, 171}

RECURSIVE ItemBytes(_, _)
ItemBytes(e, items) ==
  IF items = <<>> THEN <<>>
  ELSE (IF Head(items).w >= 0 THEN write_u32(e, Head(items).w) ELSE Head(items).b)
         \o ItemBytes(e, Tail(items))

SectionBytes(e, d) ==
  d.tag \o write_u32(e, d.size) \o Rep(0, 8) \o ItemBytes(e, d.items)

Aligned(bytes, written, pad) ==
  LET rem == (written + Len(bytes)) % PADDING_LENGTH IN
  bytes \o Rep(pad, IF rem = 0 THEN 0 ELSE PADDING_LENGTH - rem)

RECURSIVE BodyBytes(_, _, _, _)
BodyBytes(e, secs, pads, written) ==
  IF secs = <<>> THEN <<>>
  ELSE LET s == Aligned(SectionBytes(e, Pool[Head(secs)]), written, Head(pads))
       IN  s \o BodyBytes(e, Tail(secs), Tail(pads), written + Len(s))

FileBytes(f) ==
  LET body == BodyBytes(f.e, f.secs, f.pads, 32)
      head == (IF f.hdr = "magic" THEN <<77, 115, 103, 83, 116, 100, 66, 78>>
               ELSE HEADER_MAGIC)
                \o (IF f.hdr = "bom" THEN <<255, 255>>
                    ELSE IF f.e = "Big" THEN <<254, 255>> ELSE <<255, 254>>)
                \o <<0, 0>>
                \o <<IF f.hdr = "enc" THEN 2 ELSE 1, 0>>
                \o write_u16(f.e, Len(f.secs) + (IF f.lying THEN 1 ELSE 0))
                \o <<0, 0>>
                \o write_u32(f.e, IF f.lying THEN 0 ELSE 32 + Len(body))
                \o Rep(0, 10)
      all == head \o body
  IN  SubSeq(all, 1, Len(all) - f.cut)

SeqsUpTo(S, n) == UNION {[1..k -> S] : k \in 0..n}

File(e, hdr, lying, secs, pads, cut) ==
  [e |-> e, hdr |-> hdr, lying |-> lying, secs |-> secs, pads |-> pads, cut |-> cut]

Files ==
  \* every sequence of sections, honest header, one pad byte
  {File("Little", "ok", FALSE, secs, [i \in 1..Len(secs) |-> 171], 0) :
     secs \in SeqsUpTo(1..Len(Pool), MaxSections)}
  \cup
  \* either byte order, honest or lying header fields, any pad bytes
  UNION {{File(e, "ok", lying, secs, pads, 0) :
            e \in {"Big", "Little"}, lying \in BOOLEAN,
            pads \in [1..Len(secs) -> PadBytes]} :
         secs \in SeqsUpTo(SmallPool, MaxSections)}
  \cup
  \* truncated files
  {File("Big", "ok", FALSE, secs, [i \in 1..Len(secs) |-> 0], cut) :
     secs \in SeqsUpTo(SmallPool, MaxSections), cut \in {1, 20}}
  \cup
  \* headers that are refused
  {File("Little", hdr, FALSE, <<>>, <<>>, 0) : hdr \in {"magic", "bom", "enc"}}

(***************************************************************************)
(* The program: Msbt::from_reader on the input, then Msbt::write_to on the  *)
(* container it returned, with no mutation in between.                     *)
(***************************************************************************)
Init ==
  /\ file \in Files
  /\ input = FileBytes(file)
  /\ pos = 0
  /\ msbt = None
  /\ pc = "header"
  /\ result = [kind |-> "", bytes |-> <<>>]
  /\ out = <<>>
  /\ wi = 0

\* the error kinds a failed parsing function ends from_reader with
Outcomes(r) == IF r.err = "Overflow" THEN {"Panic", "Io"} ELSE {r.err}

\* from_reader ends without a container
Fail(r) ==
  /\ \E k \in Outcomes(r) : result' = [kind |-> k, bytes |-> r.bytes]
  /\ pc' = "failed"
  /\ msbt' = None
  /\ UNCHANGED <<file, input, pos, out, wi>>

\* MsbtReader::new up to read_sections
ReadHeader ==
  /\ pc = "header"
  /\ LET r == Header_from_reader(input) IN
     IF r.ok
       THEN /\ msbt' = NewMsbt(r.val)
            /\ pos' = r.pos
            /\ pc' = "peek"
            /\ UNCHANGED <<file, input, result, out, wi>>
       ELSE Fail(r)

PeekOk == Avail(input, pos, 4)
Peek == Take(input, pos, 4)
KnownTags == {TAG_LBL1, TAG_NLI1, TAG_ATO1, TAG_ATR1, TAG_TSY1, TAG_TXT2}

\* read_sections: read_exact(&mut peek) meets the end of the stream
PeekEof ==
  /\ pc = "peek"
  /\ ~PeekOk
  /\ pc' = "parsed"
  /\ result' = [kind |-> "Ok", bytes |-> <<>>]
  /\ UNCHANGED <<file, input, pos, msbt, out, wi>>

\* read_sections has peeked the tag of a section
AtTag(tag) == pc = "peek" /\ PeekOk /\ Peek = tag

\* one arm of read_sections' match: keep the parsed section and push its
\* tag (m is the container after both), or fail as the parser failed
Store(r, m) ==
  IF r.ok
    THEN /\ msbt' = m
         /\ pos' = r.pos
         /\ pc' = "skip"
         /\ UNCHANGED <<file, input, result, out, wi>>
    ELSE Fail(r)

Push(tag) == Append(msbt.section_order, tag)
Endian == msbt.header.endianness

ReadLbl1 ==
  /\ AtTag(TAG_LBL1)
  /\ LET r == read_lbl1(input, Endian, pos) IN
     Store(r, [msbt EXCEPT !.lbl1 = Some(Lbl1Of(r.val)),
                           !.section_order = Push("Lbl1")])

ReadAtr1 ==
  /\ AtTag(TAG_ATR1)
  /\ LET r == read_atr1(input, Endian, pos) IN
     Store(r, [msbt EXCEPT !.atr1 = Some(r.val), !.section_order = Push("Atr1")])

ReadAto1 ==
  /\ AtTag(TAG_ATO1)
  /\ LET r == read_ato1(input, Endian, pos) IN
     Store(r, [msbt EXCEPT !.ato1 = Some(r.val), !.section_order = Push("Ato1")])

ReadTsy1 ==
  /\ AtTag(TAG_TSY1)
  /\ LET r == read_tsy1(input, Endian, pos) IN
     Store(r, [msbt EXCEPT !.tsy1 = Some(r.val), !.section_order = Push("Tsy1")])

ReadTxt2 ==
  /\ AtTag(TAG_TXT2)
  /\ LET r == read_txt2(input, Endian, pos) IN
     Store(r, [msbt EXCEPT !.txt2 = Some(r.val), !.section_order = Push("Txt2")])

ReadNli1 ==
  /\ AtTag(TAG_NLI1)
  /\ LET r == read_nli1(input, Endian, pos) IN
     Store(r, [msbt EXCEPT !.nli1 = Some(r.val), !.section_order = Push("Nli1")])

\* an unknown tag taken for the end of the sections
InvalidSection_lenient ==
  /\ pc = "peek"
  /\ PeekOk
  /\ Peek \notin KnownTags
  /\ pc' = "parsed"
  /\ result' = [kind |-> "Ok", bytes |-> <<>>]
  /\ UNCHANGED <<file, input, pos, msbt, out, wi>>

\* the match's last arm: Err(Error::InvalidSection(peek))
InvalidSection ==
  /\ pc = "peek"
  /\ PeekOk
  /\ Peek \notin KnownTags
  /\ Fail(Err("InvalidSection", Peek))

\* self.skip_padding()? at the end of the loop body
SkipPadding ==
  /\ pc = "skip"
  /\ LET r == skip_padding(input, pos, msbt.pad_byte) IN
     IF r.ok
       THEN /\ msbt' = [msbt EXCEPT !.pad_byte = r.val]
            /\ pos' = r.pos
            /\ pc' = "peek"
            /\ UNCHANGED <<file, input, result, out, wi>>
       ELSE Fail(r)

\* write_to: MsbtWriter::new and write_header
WriteHeader ==
  /\ pc = "parsed"
  /\ out' = write_header(msbt)
  /\ wi' = 1
  /\ pc' = "writing"
  /\ UNCHANGED <<file, input, pos, msbt, result>>

\* write_to's loop is at a tag of section_order
AtOrder(tag) ==
  pc = "writing" /\ wi <= Len(msbt.section_order) /\ msbt.section_order[wi] = tag

\* the loop body: the tag's writer runs, the loop moves on
Emit(tag) ==
  /\ out' = out \o WriteSectionBytes(msbt, tag, Len(out))
  /\ wi' = wi + 1
  /\ UNCHANGED <<file, input, pos, msbt, pc, result>>

WriteLbl1 ==
  /\ AtOrder("Lbl1")
  /\ Emit("Lbl1")

WriteNli1 ==
  /\ AtOrder("Nli1")
  /\ Emit("Nli1")

WriteAto1 ==
  /\ AtOrder("Ato1")
  /\ Emit("Ato1")

WriteAtr1 ==
  /\ AtOrder("Atr1")
  /\ Emit("Atr1")

WriteTsy1 ==
  /\ AtOrder("Tsy1")
  /\ Emit("Tsy1")

WriteTxt2 ==
  /\ AtOrder("Txt2")
  /\ Emit("Txt2")

\* write_to returns Ok(())
WriteDone ==
  /\ pc = "writing"
  /\ wi > Len(msbt.section_order)
  /\ pc' = "written"
  /\ UNCHANGED <<file, input, pos, msbt, result, out, wi>>

Next ==
  \/ ReadHeader
  \/ PeekEof
  \/ ReadLbl1
  \/ ReadAtr1
  \/ ReadAto1
  \/ ReadTsy1
  \/ ReadTxt2
  \/ ReadNli1
  \/ InvalidSection
  \/ SkipPadding
  \/ WriteHeader
  \/ WriteLbl1
  \/ WriteNli1
  \/ WriteAto1
  \/ WriteAtr1
  \/ WriteTsy1
  \/ WriteTxt2
  \/ WriteDone

Spec == Init /\ [][Next]_vars

(***************************************************************************)
(* Well-formed inputs: a valid header with the true section count and file  *)
(* size, sections of the six known kinds (each kind at most once, in any    *)
(* order) whose size field is the payload's length and whose payload is     *)
(* consistent, one pad byte in every gap, nothing cut off.                  *)
(***************************************************************************)
WellFormed(f) ==
  /\ f.hdr = "ok"
  /\ ~f.lying
  /\ f.cut = 0
  /\ \A i \in 1..Len(f.secs) : Pool[f.secs[i]].wf
  /\ \A i, j \in 1..Len(f.secs) : Pool[f.secs[i]].tag = Pool[f.secs[j]].tag => i = j
  /\ \A i, j \in 1..Len(f.pads) : f.pads[i] = f.pads[j]

\* C1: round trip identity: what write_to emits for the container that
\* from_reader returned for a well-formed input is the input, byte for byte
C1_RoundTrip ==
  (pc = "written" /\ WellFormed(file)) => out = input

\* from_reader has returned a container
Returned == pc \in {"parsed", "writing", "written"}

\* the header fields of the written file
OutSectionCount == read_u16(msbt.header.endianness, Take(out, 14, 2))
OutFileSize == read_u32(msbt.header.endianness, Take(out, 18, 4))

\* C2: for every container from_reader returns, the header's section count,
\* in memory and as write_to emits it, is the length of section_order
C2_SectionCount ==
  /\ Returned => msbt.header.section_count = Len(msbt.section_order)
  /\ pc = "written" => OutSectionCount = Len(msbt.section_order)

\* C3: the file-size field write_to emits is the number of bytes it emits
\* for the whole file
C3_FileSize ==
  pc = "written" => OutFileSize = Len(out)

\* the bytes one step of write_to appends
Emitted == SubSeq(out', Len(out) + 1, Len(out'))

\* write_to writes the section of one tag, which the container holds
Writes(tag) == AtOrder(tag) /\ Emit(tag) /\ Present(msbt, tag)

\* the encoded byte length of the first n entries of a string table
RECURSIVE BytesBefore(_, _)
BytesBefore(values, n) ==
  IF n = 0 THEN 0
  ELSE Len(value_bytes(values[n])) + BytesBefore(values, n - 1)

\* the i-th offset field (1-based) of an emitted string-table section
OffsetField(e, bytes, i) == read_u32(e, Take(bytes, 16 + 4 + 4 * (i - 1), 4))

\* C4: write_txt2 emits the count N, then N offsets, the i-th being
\* N*4 + 4 plus the encoded byte length of the entries before it, which is
\* where that entry's bytes start in the payload
C4_Txt2Offsets ==
  [][Writes("Txt2") =>
       LET values == Unwrap(msbt.txt2).values
           N == Len(values)
           e == msbt.header.endianness
       IN  /\ read_u32(e, Take(Emitted, 16, 4)) = N
           /\ \A i \in 1..N :
                /\ OffsetField(e, Emitted, i) = N * 4 + 4 + BytesBefore(values, i - 1)
                /\ Take(Emitted, 16 + OffsetField(e, Emitted, i),
                        Len(value_bytes(values[i]))) = value_bytes(values[i])]_vars

\* the same for string tables whose entries are all empty (two empty
\* entries give offsets [baseline, baseline])
C4_EmptyEntries ==
  [][Writes("Txt2") =>
       LET values == Unwrap(msbt.txt2).values
           N == Len(values)
           e == msbt.header.endianness
       IN  (\A i \in 1..N : values[i] = <<>>) =>
             \A i \in 1..N : OffsetField(e, Emitted, i) = N * 4 + 4]_vars

(***************************************************************************)
(* Alignment gaps of the input: the byte in the gap after each section      *)
(* that does not end on a 16-byte boundary, in file order.                  *)
(***************************************************************************)
RECURSIVE GapBytes(_, _)
GapBytes(f, i) ==
  IF i > Len(f.secs) THEN <<>>
  ELSE (IF Len(SectionBytes(f.e, Pool[f.secs[i]])) % PADDING_LENGTH # 0
          THEN <<f.pads[i]>> ELSE <<>>)
         \o GapBytes(f, i + 1)

Gaps == GapBytes(file, 1)

\* what one step of write_to appends after the section's envelope and payload
PaddingOf(tag) ==
  SubSeq(Emitted, Len(SectionImage(msbt, tag)) + 1, Len(Emitted))

Tags == {"Lbl1", "Nli1", "Ato1", "Atr1", "Tsy1", "Txt2"}

\* write_to fills every gap it writes with the container's pad byte
WritesPadByte ==
  \A tag \in Tags :
    Writes(tag) =>
      \A k \in 1..Len(PaddingOf(tag)) : PaddingOf(tag)[k] = msbt.pad_byte

TimesAssigned(assigned, i) == Cardinality({k \in 1..Len(assigned) : assigned[k] = i})

\* C6: for every label table a successful read_lbl1 returns, the number of
\* labels is the sum of the bucket counts, and every index below it was
\* assigned by exactly one label record of the payload
C6_LabelCoverage ==
  [][ReadLbl1 /\ pc' = "skip" =>
       LET v == read_lbl1(input, Endian, pos).val
           n == Len(v.labels)
       IN  /\ n = SumLabelCounts(v.groups)
           /\ \A k \in 1..Len(v.assigned) : v.assigned[k] \in 0..(n - 1)
           /\ \A i \in 0..(n - 1) : TimesAssigned(v.assigned, i) = 1]_vars

\* the size field of the envelope one step of write_to emits
SizeField == read_u32(msbt.header.endianness, Take(Emitted, 4, 4))

\* the stored section of a tag
Stored(tag) ==
  CASE tag = "Lbl1" -> Unwrap(msbt.lbl1)
    [] tag = "Nli1" -> Unwrap(msbt.nli1)
    [] tag = "Ato1" -> Unwrap(msbt.ato1)
    [] tag = "Atr1" -> Unwrap(msbt.atr1)
    [] tag = "Tsy1" -> Unwrap(msbt.tsy1)
    [] tag = "Txt2" -> Unwrap(msbt.txt2)

\* C7: for every section write_to emits, the size field of the envelope is
\* the number of payload bytes emitted before the padding; an opaque
\* section's size is its stored byte length and its bytes are emitted
\* unchanged
C7_SizeField ==
  [][\A tag \in Tags :
       Writes(tag) =>
         /\ SizeField = Len(Emitted) - Section_calc_size - Len(PaddingOf(tag))
         /\ tag \in {"Ato1", "Atr1", "Tsy1"} =>
              /\ SizeField = Len(Stored(tag).unknown)
              /\ Take(Emitted, Section_calc_size, SizeField) = Stored(tag).unknown]_vars

\* the part of C7 about opaque sections alone
C7_OpaqueSize ==
  [][\A tag \in {"Ato1", "Atr1", "Tsy1"} :
       Writes(tag) =>
         /\ SizeField = Len(Stored(tag).unknown)
         /\ SizeField = Len(Emitted) - Section_calc_size - Len(PaddingOf(tag))
         /\ Take(Emitted, Section_calc_size, SizeField) = Stored(tag).unknown]_vars

\* C8: when the next 4 bytes at a section boundary are none of the six
\* known tags, from_reader fails with the unrecognized-section error
\* carrying exactly those bytes and returns no container, whatever it
\* parsed before
C8_UnknownTag ==
  [][(pc = "peek" /\ Avail(input, pos, 4)
        /\ Take(input, pos, 4) \notin
             {TAG_LBL1, TAG_NLI1, TAG_ATO1, TAG_ATR1, TAG_TSY1, TAG_TXT2})
      => /\ pc' = "failed"
         /\ result' = [kind |-> "InvalidSection", bytes |-> Take(input, pos, 4)]
         /\ msbt' = None]_vars

\* an unknown tag was met after a section had been parsed
C8_Witness ==
  /\ pc = "failed"
  /\ result = [kind |-> "InvalidSection", bytes |-> <<88, 89, 90, 49>>]
  /\ pos > 32

\* C9: after write_to has written a section, the number of bytes written
\* since the start of the file is a multiple of 16, the padding is 0 to 15
\* bytes long and every padding byte is the container's pad byte
C9_Alignment ==
  /\ [](pc \in {"writing", "written"} => Len(out) % PADDING_LENGTH = 0)
  /\ [][\A tag \in Tags :
          Writes(tag) =>
            /\ Len(out') % PADDING_LENGTH = 0
            /\ Len(PaddingOf(tag)) \in 0..15
            /\ \A k \in 1..Len(PaddingOf(tag)) : PaddingOf(tag)[k] = msbt.pad_byte]_vars

\* a section that ends on the boundary and one that needs 13 pad bytes of
\* a non-zero pad byte were written
C9_Witness ==
  /\ pc = "written"
  /\ msbt.section_order = <<"Atr1", "Ato1">>
  /\ msbt.pad_byte = 171
  /\ Len(out) = 80

\* the label records of an emitted label-table section, read back in the
\* order they were written: the indices they carry and the table they build
EmittedLabels(e, bytes, lbl1) ==
  ReadLabels(bytes, e, Section_calc_size + 4 + 8 * Len(lbl1.groups),
             Len(lbl1.labels), [i \in 1..Len(lbl1.labels) |-> [name |-> <<>>]], <<>>)

\* C10: write_lbl1 emits the bucket count and the bucket list as stored,
\* then every label exactly once, in non-decreasing order of its checksum,
\* each as (1-byte name length, name bytes, 4-byte index) with the index
\* its position in the label array, so that re-reading assigns each name
\* to the same index
C10_LabelWrite ==
  [][Writes("Lbl1") =>
       LET lbl1 == Unwrap(msbt.lbl1)
           e == msbt.header.endianness
           n == Len(lbl1.labels)
           G == Len(lbl1.groups)
           image == SubSeq(Emitted, 1, Len(Emitted) - Len(PaddingOf("Lbl1")))
           recs == EmittedLabels(e, image, lbl1)
           order == recs.val.assigned
       IN  /\ read_u32(e, Take(image, 16, 4)) = G
           /\ \A g \in 1..G :
                /\ read_u32(e, Take(image, 20 + 8 * (g - 1), 4)) = lbl1.groups[g].label_count
                /\ read_u32(e, Take(image, 24 + 8 * (g - 1), 4)) = lbl1.groups[g].offset
           /\ recs.ok
           /\ recs.pos = Len(image)
           /\ \A i \in 0..(n - 1) : TimesAssigned(order, i) = 1
           /\ \A k \in 1..(n - 1) :
                checksum(lbl1.labels[order[k] + 1], lbl1)
                  <= checksum(lbl1.labels[order[k + 1] + 1], lbl1)
           /\ recs.val.labels = lbl1.labels
           /\ LET again == read_lbl1(image, e, 0)
              IN  again.ok /\ again.val.labels = lbl1.labels]_vars

\* a table was written whose labels' checksum order is not their index order
C10_Witness ==
  /\ pc = "written"
  /\ "Lbl1" \in {msbt.section_order[i] : i \in 1..Len(msbt.section_order)}
  /\ LET lbl1 == Unwrap(msbt.lbl1) IN
       /\ Len(lbl1.labels) = 3
       /\ checksum(lbl1.labels[1], lbl1) > checksum(lbl1.labels[2], lbl1)

(***************************************************************************)
(* The dispatch loop of read_sections.  One iteration is a peek (pc =       *)
(* "peek"), the parser of the peeked tag (pc becomes "skip") and            *)
(* skip_padding (pc becomes "peek" again).  from_reader is one synchronous  *)
(* call: once entered, each of its steps that can be taken is taken, which  *)
(* is the fairness LiveSpec states; nothing obliges a caller to call        *)
(* write_to afterwards.                                                     *)
(***************************************************************************)
Reading ==
  \/ ReadHeader
  \/ PeekEof
  \/ ReadLbl1
  \/ ReadAtr1
  \/ ReadAto1
  \/ ReadTsy1
  \/ ReadTxt2
  \/ ReadNli1
  \/ InvalidSection
  \/ SkipPadding

LiveSpec == Spec /\ WF_vars(Reading)

\* control is inside read_sections' loop
InLoop == pc \in {"peek", "skip"}

\* the variants of error::Error that read_sections can return
ReturnedErrors == {"Io", "InvalidMagic", "InvalidUtf8", "InvalidSection"}

\* the loop is left by return Ok(()) at the end of the stream, or by
\* returning an Err
LeavesByReturn ==
  \/ pc = "peek" /\ ~PeekOk /\ pc' = "parsed" /\ result'.kind = "Ok"
  \/ pc' = "failed" /\ result'.kind \in ReturnedErrors

\* a parser has consumed a whole section envelope, skip_padding does not
\* move backwards: the next iteration starts strictly further on
Advances ==
  /\ (pc = "peek" /\ pc' = "skip") => pos' >= pos + Section_calc_size
  /\ (pc = "skip" /\ pc' = "peek") => pos' >= pos

\* C11 (support): on every input the loop is left after finitely many
\* iterations, by whatever way.
C11_Terminates == <>(~InLoop /\ pc # "header")

\* C11 (support): the stream position at the start of an iteration is
\* strictly greater than at the start of the one before it, and never
\* exceeds the input's length rounded up to the alignment.
C11_PositionIncreases ==
  /\ [](InLoop => pos <= Len(input) + PADDING_LENGTH - 1)
  /\ [][Advances]_vars

\* C11: on every finite input the section dispatch loop ends after finitely
\* many iterations, either returning Ok at the end of the stream or
\* returning an error, and each iteration starts at a stream position
\* strictly greater than the one before it.
C11_Dispatch ==
  /\ C11_Terminates
  /\ [][(InLoop /\ ~InLoop') => LeavesByReturn]_vars
  /\ [][Advances]_vars

====
